---- MODULE Spec2Model ----
(***************************************************************************)
(* Model of hooks/tk-multi-launchapp/before_app_launch.py                  *)
(* (class BeforeAppLaunch, a Python 2 Toolkit hook).                       *)
(*                                                                         *)
(* Text is modelled as a sequence of tokens.  A token is a separator       *)
(* ("=", ":", the line break NL), a variable reference ("$MYVAR", "$SHOW", *)
(* ...) or a literal chunk ("foo").  Version strings are sequences of      *)
(* single characters, because the version regex works on characters.      *)
(* An optional value (Python None or a value) is <<>> or <<value>>.        *)
(***************************************************************************)
EXTENDS Naturals, Sequences, FiniteSets

VARIABLES
    pc,          \* position in execute / the version check
    raised,      \* name of the exception that left execute, "" when none
    environ,     \* os.environ: variable name -> value
    environ0,    \* os.environ at entry to execute
    templates,   \* self.sgtk.templates, each already resolved for the context
    results,     \* what shotgun.find returns, in result order
    idx,         \* index of the result the selection loop is at
    env_lists,   \* __get_env_vars: method -> list of raw lines
    env_dicts,   \* __get_env_vars: method -> (key -> list of values)
    entity,      \* context.entity: <<>> or <<[type, code]>>
    logged,      \* exception names passed to logger.error
    log,         \* the apply phase's logger.debug records <<what, key, value>>
    task_status, \* sg_status_list of the context's task, "" without a task
    version,     \* the application version: <<>> or <<string>>
    bound,       \* a version bound (sg_host_min_version / sg_host_max_version)
    check        \* result of the version check under study

vars == <<pc, raised, environ, environ0, templates, results, idx, env_lists,
          env_dicts, entity, logged, log, task_status, version, bound, check>>

\* ------------------------------------------------------------------ bounds

\* Number of records the rule query returns.
MaxRules == 2
\* Length of the version strings enumerated for the version checks.
MaxVerLen == 2

\* ------------------------------------------------------------------- text

NL == "\n"
None == <<>>
Some(v) == <<v>>

SeqsUpTo(S, n) == UNION {[1..k -> S] : k \in 0..n}

\* All orders in which the elements of a set can be iterated.
Orders(S) ==
    {o \in [1..Cardinality(S) -> S] : \A i, j \in 1..Cardinality(S) : o[i] = o[j] => i = j}

RECURSIVE Flatten(_)
Flatten(ss) == IF ss = <<>> THEN <<>> ELSE Head(ss) \o Flatten(Tail(ss))

Contains(s, x) == \E i \in 1..Len(s) : s[i] = x

\* Index of the first x in s, 0 when there is none.
FirstIndex(s, x) ==
    IF Contains(s, x) THEN CHOOSE i \in 1..Len(s) : s[i] = x /\ \A j \in 1..(i - 1) : s[j] # x
    ELSE 0

\* str.split(sep): always at least one part.
RECURSIVE Split(_, _)
Split(s, sep) ==
    LET i == FirstIndex(s, sep)
    IN IF i = 0 THEN <<s>>
       ELSE <<SubSeq(s, 1, i - 1)>> \o Split(SubSeq(s, i + 1, Len(s)), sep)

\* sep.join(parts)
RECURSIVE Join(_, _)
Join(parts, sep) ==
    IF parts = <<>> THEN <<>>
    ELSE IF Len(parts) = 1 THEN parts[1]
    ELSE parts[1] \o <<sep>> \o Join(Tail(parts), sep)

\* str.replace(tok, repl): every occurrence of the token.
StrReplace(s, tok, repl) ==
    Flatten([i \in 1..Len(s) |-> IF s[i] = tok THEN repl ELSE <<s[i]>>])

VarToks == {"$MYVAR", "$SHOW", "$PROJ", "$SHOT", "$SEQ", "$ASSET"}

VarName(t) ==
    CASE t = "$MYVAR" -> <<"MYVAR">>
      [] t = "$SHOW" -> <<"SHOW">>
      [] t = "$PROJ" -> <<"PROJ">>
      [] t = "$SHOT" -> <<"SHOT">>
      [] t = "$SEQ" -> <<"SEQ">>
      [] t = "$ASSET" -> <<"ASSET">>

\* os.path.expandvars (posixpath): a reference to a variable of the
\* environment becomes its value, any other reference stays as written,
\* and an inserted value is not scanned again.
ExpandVars(s, env) ==
    Flatten([i \in 1..Len(s) |->
        IF s[i] \in VarToks /\ VarName(s[i]) \in DOMAIN env
        THEN env[VarName(s[i])] ELSE <<s[i]>>])

\* dict[key] = value
SetItem(d, k, v) == [x \in (DOMAIN d) \cup {k} |-> IF x = k THEN v ELSE d[x]]

EmptyDict == [x \in {} |-> <<>>]

\* ------------------------------------------------------ version comparison

Digits == {"0", "1", "2", "3", "4", "5", "6", "7", "8", "9"}

Ord(c) ==
    CASE c = "0" -> 0 [] c = "1" -> 1 [] c = "2" -> 2 [] c = "3" -> 3 [] c = "4" -> 4
      [] c = "5" -> 5 [] c = "6" -> 6 [] c = "7" -> 7 [] c = "8" -> 8 [] c = "9" -> 9

\* The longest run of digits of s that starts at position p (\d+, greedy).
RECURSIVE DigitRun(_, _)
DigitRun(s, p) ==
    IF p <= Len(s) /\ s[p] \in Digits THEN <<s[p]>> \o DigitRun(s, p + 1) ELSE <<>>

\* re.match(__version_regex, s): <<>> when there is no match, else
\* <<groups>>, a group that took no part in the match being None (<<>>).
\* Everything after the first group is optional, so the greedy choice at
\* each step is the match.
VersionMatch(s) ==
    LET g1 == DigitRun(s, 1)
        p1 == 1 + Len(g1)
        p2 == IF p1 <= Len(s) /\ s[p1] = "." THEN p1 + 1 ELSE p1
        g2 == DigitRun(s, p2)
        p3 == p2 + Len(g2)
        p4 == IF p3 <= Len(s) /\ s[p3] \in {".", "v"} THEN p3 + 1 ELSE p3
        g3 == DigitRun(s, p4)
    IN IF g1 = <<>> THEN None ELSE Some(<<g1, g2, g3>>)

\* Python 2 order of two str: character by character, a prefix first.
RECURSIVE StrLess(_, _)
StrLess(a, b) ==
    IF b = <<>> THEN FALSE
    ELSE IF a = <<>> THEN TRUE
    ELSE IF Head(a) # Head(b) THEN Ord(Head(a)) < Ord(Head(b))
    ELSE StrLess(Tail(a), Tail(b))

\* Python 2 order of two groups: None is less than every str.
GroupLess(a, b) ==
    IF a = None THEN b # None
    ELSE IF b = None THEN FALSE
    ELSE StrLess(a, b)

\* Python 2 order of two tuples: by the first element that differs.
RECURSIVE TupleLess(_, _)
TupleLess(a, b) ==
    IF a = <<>> \/ b = <<>> THEN a = <<>> /\ b # <<>>
    ELSE IF Head(a) # Head(b) THEN GroupLess(Head(a), Head(b))
    ELSE TupleLess(Tail(a), Tail(b))

\* __min_check: "true", "false", or "raise" (re.match gave None, or the
\* current version is None).
MinCheck(curr_version, min_version) ==
    IF min_version = None THEN "true"
    ELSE IF VersionMatch(min_version[1]) = None THEN "raise"
    ELSE IF curr_version = None \/ VersionMatch(curr_version[1]) = None THEN "raise"
    ELSE IF ~TupleLess(VersionMatch(curr_version[1])[1], VersionMatch(min_version[1])[1])
         THEN "true" ELSE "false"

\* __max_check
MaxCheck(curr_version, max_version) ==
    IF max_version = None THEN "true"
    ELSE IF VersionMatch(max_version[1]) = None THEN "raise"
    ELSE IF curr_version = None \/ VersionMatch(curr_version[1]) = None THEN "raise"
    ELSE IF ~TupleLess(VersionMatch(max_version[1])[1], VersionMatch(curr_version[1])[1])
         THEN "true" ELSE "false"

\* ------------------------------------------------------------ environment

PathSep == ":"

\* sgtk.util.append_path_to_env_var / prepend_path_to_env_var (tk-core's
\* _add_path_to_env_var): split the variable on the separator, drop empty
\* entries, add the path unless it is already listed, join and store.
AddPathToEnvVar(env, name, path, prepend) ==
    LET cur == IF name \in DOMAIN env THEN env[name] ELSE <<>>
        paths == SelectSeq(Split(cur, PathSep), LAMBDA x : x # <<>>)
        new == IF Contains(paths, path) THEN paths
               ELSE IF prepend THEN <<path>> \o paths
               ELSE Append(paths, path)
    IN SetItem(env, name, Join(new, PathSep))

\* str.upper() of a template name, token by token.
UpperTok(t) ==
    CASE t = "pipe_" -> "PIPE_"
      [] t = "root" -> "ROOT"
      [] t = "work_" -> "WORK_"
      [] t = "area" -> "AREA"
      [] OTHER -> t

Upper(s) == [i \in 1..Len(s) |-> UpperTok(s[i])]

\* k.startswith("pipe_")
StartsWithPipe(k) == Len(k) >= 1 /\ k[1] = "pipe_"

\* Mutant of PipeTemplates: the pipe_ filter is lost.
PipeTemplatesUnfiltered(t) == DOMAIN t

\* pipe_templates = {k: v for k, v in templates if k.startswith("pipe_")}
PipeTemplates(t) == {k \in DOMAIN t : StartsWithPipe(k)}

\* for k, v in pipe_templates.iteritems(): os.environ[k.upper()] = expandvars(v)
RECURSIVE SetTemplates(_, _, _)
SetTemplates(env, order, t) ==
    IF order = <<>> THEN env
    ELSE SetTemplates(SetItem(env, Upper(Head(order)), ExpandVars(t[Head(order)], env)),
                      Tail(order), t)

\* --------------------------------------------------------- classification

Methods == {"replace", "prepend", "append"}

EmptyLists == [replace |-> <<>>, prepend |-> <<>>, append |-> <<>>]
EmptyDicts == [replace |-> EmptyDict, prepend |-> EmptyDict, append |-> EmptyDict]

\* What the selection loop does with one result: "skip", "raise:<name>",
\* or "take".  `and` evaluates __max_check only when __min_check is true.
Selection(r, app_version) ==
    IF r.block = <<>> THEN "skip"
    ELSE IF MinCheck(app_version, r.min) = "raise" THEN "raise:AttributeError"
    ELSE IF MinCheck(app_version, r.min) = "false" THEN "skip"
    ELSE IF MaxCheck(app_version, r.max) = "raise" THEN "raise:AttributeError"
    ELSE IF MaxCheck(app_version, r.max) = "false" THEN "skip"
    ELSE IF r.method \notin Methods THEN "raise:KeyError"
    ELSE "take"

\* env_dicts[key].setdefault(i.split('=')[0], []).append(i.split('=')[1]):
\* setdefault runs before the argument of append is evaluated, so the key
\* is in the dict when i.split('=')[1] raises IndexError.
ConsolidateLine(d, line) ==
    LET parts == Split(line, "=")
        k == parts[1]
        d1 == IF k \in DOMAIN d THEN d ELSE SetItem(d, k, <<>>)
    IN IF Len(parts) >= 2 THEN SetItem(d1, k, Append(d1[k], parts[2])) ELSE d1

RECURSIVE ConsolidateLines(_, _)
ConsolidateLines(d, lines) ==
    IF lines = <<>> THEN d
    ELSE ConsolidateLines(ConsolidateLine(d, Head(lines)), Tail(lines))

RaisesIndexError(line) == Len(Split(line, "=")) < 2

\* ------------------------------------------------------------ placeholders

ProjectCode == <<"proj42">>

\* proj, seq, asset, shot of __resolve_nested_vars ('' is <<>>)
Proj(e) ==
    IF e = None THEN ProjectCode
    ELSE IF e[1].type = "Project" THEN e[1].code ELSE <<>>
Asset(e) == IF e # None /\ e[1].type = "Asset" THEN e[1].code ELSE <<>>
Shot(e) == IF e # None /\ e[1].type = "Shot" THEN e[1].code ELSE <<>>
Sequence(e) == IF e # None /\ e[1].type = "Sequence" THEN e[1].code ELSE <<>>

ReplaceIf(s, tok, code) == IF code # <<>> THEN StrReplace(s, tok, code) ELSE s

\* the five replacements of one list item, in the code's order
Substitute(s, e) ==
    ReplaceIf(ReplaceIf(ReplaceIf(ReplaceIf(ReplaceIf(s,
        "$SEQ", Sequence(e)), "$SHOT", Shot(e)), "$SHOW", Proj(e)),
        "$PROJ", Proj(e)), "$ASSET", Asset(e))

ResolveNestedVars(envs, e) ==
    [m \in DOMAIN envs |->
        [k \in DOMAIN envs[m] |->
            [i \in 1..Len(envs[m][k]) |-> Substitute(envs[m][k][i], e)]]]

\* ------------------------------------------------------------------ apply

SgtkEnvVars == <<"SGTK_ENV_VARS">>
TkDebug == <<"TK_DEBUG">>

\* set(replace_envs.keys() + prepend_envs.keys() + append_envs.keys())
EnvKeys(envs) == (DOMAIN envs.replace) \cup (DOMAIN envs.prepend) \cup (DOMAIN envs.append)

RECURSIVE RecordKeyList(_, _)
RecordKeyList(env, order) ==
    IF order = <<>> THEN env
    ELSE RecordKeyList(AddPathToEnvVar(env, SgtkEnvVars, ExpandVars(Head(order), env), FALSE),
                       Tail(order))

\* lines 86-90
RecordKeys(env, order) ==
    LET e1 == RecordKeyList(env, order)
    IN IF TkDebug \in DOMAIN e1 /\ e1[TkDebug] # <<>>
       THEN AddPathToEnvVar(e1, SgtkEnvVars, TkDebug, FALSE) ELSE e1

\* Mutant of ReplaceValues: the inner loop stops after the first value.
ReplaceValuesFirstOnly(env, key, vals) ==
    IF vals = <<>> THEN env ELSE SetItem(env, key, ExpandVars(Head(vals), env))

\* for env_value in value_list: os.environ[env_key] = expandvars(env_value)
RECURSIVE ReplaceValues(_, _, _)
ReplaceValues(env, key, vals) ==
    IF vals = <<>> THEN env
    ELSE ReplaceValues(SetItem(env, key, ExpandVars(Head(vals), env)), key, Tail(vals))

RECURSIVE ReplaceKeys(_, _, _)
ReplaceKeys(env, order, d) ==
    IF order = <<>> THEN env
    ELSE ReplaceKeys(ReplaceValues(env, Head(order), d[Head(order)]), Tail(order), d)

\* for env_value in value_list: prepend/append_path_to_env_var(env_key, expandvars(env_value))
RECURSIVE AddPathValues(_, _, _, _)
AddPathValues(env, key, vals, prepend) ==
    IF vals = <<>> THEN env
    ELSE AddPathValues(AddPathToEnvVar(env, key, ExpandVars(Head(vals), env), prepend),
                       key, Tail(vals), prepend)

RECURSIVE AddPathKeys(_, _, _, _)
AddPathKeys(env, order, d, prepend) ==
    IF order = <<>> THEN env
    ELSE AddPathKeys(AddPathValues(env, Head(order), d[Head(order)], prepend),
                     Tail(order), d, prepend)

\* the logger.debug records of one pass
PassLog(what, order, d) ==
    Flatten([i \in 1..Len(order) |->
        [j \in 1..Len(d[order[i]]) |-> <<what, order[i], d[order[i]][j]>>]])

\* Mutant of NextPass: the append loop is placed before the prepend loop.
NextPassAppendFirst(p) ==
    CASE p = "replace" -> "append"
      [] p = "append" -> "prepend"
      [] p = "prepend" -> "task"

\* The pass that follows each pass of the apply phase.
NextPass(p) ==
    CASE p = "replace" -> "prepend"
      [] p = "prepend" -> "append"
      [] p = "append" -> "task"

\* ----------------------------------------------------------------- inputs

V(s) == Some(s)

BlockFoo == <<"MYVAR", "=", "foo">>
BlockBar == <<"MYVAR", "=", "bar">>
BlockRef == <<"B", "=", "x", NL, "B", "=", "$MYVAR">>
BlockOpts == <<"OPTS", "=", "a", "=", "b", NL, "MALFORMED">>
BlockCtx == <<"MYVAR", "=", "/assets/", "$SHOW", "/", "$SHOT", NL,
              "CTX", "=", "$PROJ", "$SEQ", "$ASSET">>

Rule(m, b, lo, hi) == [method |-> m, block |-> b, min |-> lo, max |-> hi]

\* The records the query may return: every merge method for the plain
\* blocks, one rule each for the special blocks, an unset and an unknown
\* merge method, and version bounds that pass, exclude, and do not parse.
RuleCatalog ==
    {Rule(m, b, None, None) : m \in Methods, b \in {BlockFoo, BlockBar, BlockRef}}
    \cup {Rule("append", BlockOpts, None, None), Rule("prepend", BlockCtx, None, None),
          Rule("replace", <<>>, None, None)}
    \cup {Rule(m, BlockFoo, None, None) : m \in {"", "merge"}}
    \cup {Rule("replace", BlockFoo, V(lo), None) : lo \in {<<"2", ".", "0">>, <<"3", ".", "0">>, <<"x">>}}
    \cup {Rule("replace", BlockFoo, None, V(<<"x">>))}

Entities ==
    {None,
     Some([type |-> "Project", code |-> ProjectCode]),
     Some([type |-> "Shot", code |-> <<"sh010">>]),
     Some([type |-> "Sequence", code |-> <<"sq01">>]),
     Some([type |-> "Asset", code |-> <<"chair">>])}

Environs ==
    {EmptyDict,
     [k \in {<<"MYVAR">>, TkDebug} |-> IF k = TkDebug THEN <<"1">> ELSE <<"old">>]}

TemplateSets ==
    {EmptyDict,
     [k \in {<<"pipe_", "root">>, <<"work_", "area">>} |->
        IF k = <<"pipe_", "root">> THEN <<"/proj">> ELSE <<"/work">>]}

TaskStatuses == {"", "rdy", "ip"}

AppVersion == <<"2", ".", "1">>

\* ------------------------------------------------------------------ execute

Init ==
    /\ pc = "start"
    /\ raised = ""
    /\ environ0 \in Environs
    /\ environ = environ0
    /\ templates \in TemplateSets
    /\ results \in SeqsUpTo(RuleCatalog, MaxRules)
    /\ idx = 0
    /\ env_lists = EmptyLists
    /\ env_dicts = EmptyDicts
    /\ entity \in Entities
    /\ logged = {}
    /\ log = <<>>
    /\ task_status = ""
    /\ version = V(AppVersion)
    /\ bound = None
    /\ check = ""

\* lines 67-74
SetTemplateVars ==
    /\ pc = "start"
    /\ \E order \in Orders(PipeTemplates(templates)) :
          environ' = SetTemplates(environ, order, templates)
    /\ pc' = "fetch"
    /\ UNCHANGED <<raised, environ0, templates, results, idx, env_lists, env_dicts,
                   entity, logged, log, task_status, version, bound, check>>

\* lines 181-185: the query returns the results or raises
Fetch ==
    /\ pc = "fetch"
    /\ \E ok \in BOOLEAN :
          /\ pc' = IF ok THEN "select" ELSE "aborted"
          /\ raised' = IF ok THEN "" ELSE "Fault"
          /\ idx' = IF ok THEN 1 ELSE idx
    /\ env_lists' = EmptyLists
    /\ UNCHANGED <<environ, environ0, templates, results, env_dicts,
                   entity, logged, log, task_status, version, bound, check>>

\* lines 188-207, one result
ClassifyResult ==
    /\ pc = "select"
    /\ idx <= Len(results)
    /\ LET r == results[idx]
           sel == Selection(r, version)
       IN /\ pc' = IF sel \in {"skip", "take"} THEN "select" ELSE "aborted"
          /\ raised' = IF sel = "raise:AttributeError" THEN "AttributeError"
                       ELSE IF sel = "raise:KeyError" THEN "KeyError" ELSE ""
          /\ idx' = IF sel \in {"skip", "take"} THEN idx + 1 ELSE idx
          /\ env_lists' = IF sel = "take"
                          THEN [env_lists EXCEPT ![r.method] = @ \o Split(r.block, NL)]
                          ELSE env_lists
    /\ UNCHANGED <<environ, environ0, templates, results, env_dicts,
                   entity, logged, log, task_status, version, bound, check>>

\* lines 209-221
Consolidate ==
    /\ pc = "select"
    /\ idx > Len(results)
    /\ env_dicts' = [m \in Methods |-> ConsolidateLines(EmptyDict, env_lists[m])]
    /\ logged' = IF \E m \in Methods : \E i \in 1..Len(env_lists[m]) :
                        RaisesIndexError(env_lists[m][i])
                 THEN logged \cup {"IndexError"} ELSE logged
    /\ pc' = "resolve"
    /\ UNCHANGED <<raised, environ, environ0, templates, results, idx, env_lists,
                   entity, log, task_status, version, bound, check>>

\* lines 223-259
ResolveNested ==
    /\ pc = "resolve"
    /\ env_dicts' = ResolveNestedVars(env_dicts, entity)
    /\ pc' = "keys"
    /\ UNCHANGED <<raised, environ, environ0, templates, results, idx, env_lists,
                   entity, logged, log, task_status, version, bound, check>>

\* lines 84-91
RecordEnvKeys ==
    /\ pc = "keys"
    /\ \E order \in Orders(EnvKeys(env_dicts)) : environ' = RecordKeys(environ, order)
    /\ pc' = "replace"
    /\ UNCHANGED <<raised, environ0, templates, results, idx, env_lists, env_dicts,
                   entity, logged, log, task_status, version, bound, check>>

\* lines 93-97
ReplacePass ==
    /\ pc = "replace"
    /\ \E order \in Orders(DOMAIN env_dicts.replace) :
          /\ environ' = ReplaceKeys(environ, order, env_dicts.replace)
          /\ log' = log \o PassLog("Setting", order, env_dicts.replace)
    /\ pc' = NextPass("replace")
    /\ UNCHANGED <<raised, environ0, templates, results, idx, env_lists, env_dicts,
                   entity, logged, task_status, version, bound, check>>

\* lines 99-103
PrependPass ==
    /\ pc = "prepend"
    /\ \E order \in Orders(DOMAIN env_dicts.prepend) :
          /\ environ' = AddPathKeys(environ, order, env_dicts.prepend, TRUE)
          /\ log' = log \o PassLog("Prepending", order, env_dicts.prepend)
    /\ pc' = NextPass("prepend")
    /\ UNCHANGED <<raised, environ0, templates, results, idx, env_lists, env_dicts,
                   entity, logged, task_status, version, bound, check>>

\* lines 105-109
AppendPass ==
    /\ pc = "append"
    /\ \E order \in Orders(DOMAIN env_dicts.append) :
          /\ environ' = AddPathKeys(environ, order, env_dicts.append, FALSE)
          /\ log' = log \o PassLog("Appending", order, env_dicts.append)
    /\ pc' = NextPass("append")
    /\ UNCHANGED <<raised, environ0, templates, results, idx, env_lists, env_dicts,
                   entity, logged, task_status, version, bound, check>>

\* lines 116-126: the task's status is read, and "rdy" becomes "ip"
TaskStatus ==
    /\ pc = "task"
    /\ \E st \in TaskStatuses : task_status' = IF st = "rdy" THEN "ip" ELSE st
    /\ pc' = "done"
    /\ UNCHANGED <<raised, environ, environ0, templates, results, idx, env_lists,
                   env_dicts, entity, logged, log, version, bound, check>>

Next ==
    \/ SetTemplateVars
    \/ Fetch
    \/ ClassifyResult
    \/ Consolidate
    \/ ResolveNested
    \/ RecordEnvKeys
    \/ ReplacePass
    \/ PrependPass
    \/ AppendPass
    \/ TaskStatus

Spec == Init /\ [][Next]_vars

\* --------------------------------------------- the version checks alone

VerChars == {"0", "1", "9", ".", "v"}

VerStrings ==
    SeqsUpTo(VerChars, MaxVerLen)
    \cup {<<"2", ".", "1", ".", "3">>, <<"2", ".", "0">>, <<"1", ".", "9">>}

InitVer ==
    /\ pc = "check"
    /\ version \in {Some(v) : v \in VerStrings}
    /\ bound \in {None} \cup {Some(v) : v \in VerStrings}
    /\ check = ""
    /\ raised = ""
    /\ environ0 = EmptyDict
    /\ environ = EmptyDict
    /\ templates = EmptyDict
    /\ results = <<>>
    /\ idx = 0
    /\ env_lists = EmptyLists
    /\ env_dicts = EmptyDicts
    /\ entity = None
    /\ logged = {}
    /\ log = <<>>
    /\ task_status = ""

\* lines 261-268
DoMinCheck ==
    /\ pc = "check"
    /\ check' = MinCheck(version, bound)
    /\ pc' = "min_checked"
    /\ UNCHANGED <<raised, environ, environ0, templates, results, idx, env_lists,
                   env_dicts, entity, logged, log, task_status, version, bound>>

\* lines 270-277
DoMaxCheck ==
    /\ pc = "check"
    /\ check' = MaxCheck(version, bound)
    /\ pc' = "max_checked"
    /\ UNCHANGED <<raised, environ, environ0, templates, results, idx, env_lists,
                   env_dicts, entity, logged, log, task_status, version, bound>>

NextVer == DoMinCheck \/ DoMaxCheck

SpecVer == InitVer /\ [][NextVer]_vars

\* ------------------------------------------------------------------ claims

MYVAR == <<"MYVAR">>
RuleA == Rule("replace", BlockFoo, None, None)
RuleB == Rule("append", BlockBar, None, None)
FooBar == <<"foo", PathSep, "bar">>

PassRank(what) ==
    CASE what = "Setting" -> 1 [] what = "Prepending" -> 2 [] what = "Appending" -> 3

AfterResolve == pc \in {"keys", "replace", "prepend", "append", "task", "done"}

\* C1: the apply phase runs replace, then prepend, then append: of two
\* applications to the same key, the one of the earlier pass is never the
\* later one; every value of a pass has been applied when the pass is left;
\* and rules A (replace MYVAR=foo) and B (append MYVAR=bar), returned in
\* either order, leave MYVAR = foo:bar.
C1_ApplyOrder ==
    /\ \A i, j \in 1..Len(log) :
          (i < j /\ log[i][2] = log[j][2]) => PassRank(log[i][1]) <= PassRank(log[j][1])
    /\ pc \in {"prepend", "append", "task", "done"} =>
          \A k \in DOMAIN env_dicts.replace : \A n \in 1..Len(env_dicts.replace[k]) :
             \E i \in 1..Len(log) : log[i] = <<"Setting", k, env_dicts.replace[k][n]>>
    /\ pc \in {"append", "task", "done"} =>
          \A k \in DOMAIN env_dicts.prepend : \A n \in 1..Len(env_dicts.prepend[k]) :
             \E i \in 1..Len(log) : log[i] = <<"Prepending", k, env_dicts.prepend[k][n]>>
    /\ pc = "append" => \A i \in 1..Len(log) : log[i][1] # "Appending"
    /\ (pc = "done" /\ results \in {<<RuleA, RuleB>>, <<RuleB, RuleA>>}) =>
          environ[MYVAR] = FooBar

C1_Witness ==
    /\ pc = "done"
    /\ results = <<RuleB, RuleA>>
    /\ environ[MYVAR] = FooBar
    /\ log = <<<<"Setting", MYVAR, <<"foo">>>>, <<"Appending", MYVAR, <<"bar">>>>>>

\* Numeric value of a run of digits.
RECURSIVE NumVal(_)
NumVal(ds) == IF ds = <<>> THEN 0 ELSE 10 * NumVal(SubSeq(ds, 1, Len(ds) - 1)) + Ord(ds[Len(ds)])

\* Every component the bound b has is present in a and numerically >= it.
AllGE(a, b) == \A i \in 1..3 : b[i] # None => (a[i] # None /\ NumVal(a[i]) >= NumVal(b[i]))

BothParse == bound # None /\ VersionMatch(bound[1]) # None /\ VersionMatch(version[1]) # None

\* C2: when the current version and the bound both parse, and every
\* component of the current version is numerically >= (for __max_check <=)
\* the component of the bound, the check is true; an absent bound gives
\* true; "2.1.3" against min "2.0" is true and "1.9" against min "2.0" is
\* false.
C2_ComponentwiseCheck ==
    /\ (pc = "min_checked" /\ BothParse
            /\ AllGE(VersionMatch(version[1])[1], VersionMatch(bound[1])[1])) => check = "true"
    /\ (pc = "max_checked" /\ BothParse
            /\ AllGE(VersionMatch(bound[1])[1], VersionMatch(version[1])[1])) => check = "true"
    /\ (pc \in {"min_checked", "max_checked"} /\ bound = None) => check = "true"
    /\ (pc = "min_checked" /\ version = V(<<"2", ".", "1", ".", "3">>)
            /\ bound = V(<<"2", ".", "0">>)) => check = "true"
    /\ (pc = "min_checked" /\ version = V(<<"1", ".", "9">>)
            /\ bound = V(<<"2", ".", "0">>)) => check = "false"

UnparseableBound(r) ==
    \/ r.min # None /\ VersionMatch(r.min[1]) = None
    \/ r.max # None /\ VersionMatch(r.max[1]) = None

\* C3: a result whose version bound does not parse is skipped: execute is
\* not left by an exception at that result.
C3_UnparseableBoundSkipped ==
    (pc = "aborted" /\ idx \in 1..Len(results)) => ~UnparseableBound(results[idx])

\* C4: a result whose merge method is unset or unknown is skipped: execute
\* is not left by an exception at that result.
C4_UnknownMethodSkipped ==
    (pc = "aborted" /\ idx \in 1..Len(results)) => results[idx].method \in Methods

\* C5: for every entity type, no $SHOW and no $PROJ is left in any value
\* after __resolve_nested_vars, and with the Shot sh010 of project proj42 the
\* value /assets/$SHOW/$SHOT has become /assets/proj42/sh010.
C5_ProjectAlwaysSubstituted ==
    AfterResolve =>
        /\ \A m \in Methods : \A k \in DOMAIN env_dicts[m] : \A n \in 1..Len(env_dicts[m][k]) :
              ~Contains(env_dicts[m][k][n], "$SHOW") /\ ~Contains(env_dicts[m][k][n], "$PROJ")
        /\ (entity = Some([type |-> "Shot", code |-> <<"sh010">>])
               /\ results = <<Rule("prepend", BlockCtx, None, None)>>) =>
              env_dicts.prepend[MYVAR] = <<<<"/assets/", "proj42", "/", "sh010">>>>

\* The values of key k in the lines of one method, in order.
RECURSIVE ValuesOf(_, _)
ValuesOf(lines, k) ==
    IF lines = <<>> THEN <<>>
    ELSE LET parts == Split(Head(lines), "=")
         IN (IF Len(parts) >= 2 /\ parts[1] = k THEN <<parts[2]>> ELSE <<>>)
            \o ValuesOf(Tail(lines), k)

\* The lines of the results that pass the selection with method m, in
\* result order and then line order.
RECURSIVE SelectedLines(_, _)
SelectedLines(rs, m) ==
    IF rs = <<>> THEN <<>>
    ELSE (IF Selection(Head(rs), version) = "take" /\ Head(rs).method = m
          THEN Split(Head(rs).block, NL) ELSE <<>>) \o SelectedLines(Tail(rs), m)

\* The environment env with the variables of D taken from newer.
Overlay(env, newer, D) ==
    [k \in (DOMAIN env) \cup D |-> IF k \in D THEN newer[k] ELSE env[k]]

AllButLast(s) == SubSeq(s, 1, Len(s) - 1)

\* C6: the replace values of a key K are the values of its lines in result
\* order, then line order, and the replace pass leaves K equal to the
\* expansion of the last of them, expanded in the environment of the moment
\* (the keys written before K hold their final values).
C6_LastReplaceWins ==
    [][pc = "replace" =>
        \A K \in DOMAIN env_dicts.replace :
            LET vals == env_dicts.replace[K]
                raw == ValuesOf(SelectedLines(results, "replace"), K)
            IN /\ vals = [n \in 1..Len(raw) |-> Substitute(raw[n], entity)]
               /\ vals # <<>> =>
                     \E D \in SUBSET ((DOMAIN env_dicts.replace) \ {K}) :
                        environ'[K] = ExpandVars(vals[Len(vals)],
                            ReplaceValues(Overlay(environ, environ', D), K, AllButLast(vals)))
    ]_vars

C6_Witness ==
    /\ pc = "prepend"
    /\ MYVAR \in DOMAIN env_dicts.replace
    /\ env_dicts.replace[MYVAR] = <<<<"foo">>, <<"bar">>>>
    /\ environ[MYVAR] = <<"bar">>

\* The line after its first "=".
AfterFirstEq(line) == SubSeq(line, FirstIndex(line, "=") + 1, Len(line))

RECURSIVE RemaindersOf(_, _)
RemaindersOf(lines, k) ==
    IF lines = <<>> THEN <<>>
    ELSE (IF Contains(Head(lines), "=") /\ Split(Head(lines), "=")[1] = k
          THEN <<AfterFirstEq(Head(lines))>> ELSE <<>>) \o RemaindersOf(Tail(lines), k)

\* C7: a line is split on its first "=" only: the values of a key are the
\* whole remainders of its lines after the first "=".
C7_SplitOnFirstEq ==
    pc = "resolve" =>
        \A m \in Methods : \A i \in 1..Len(env_lists[m]) :
            Contains(env_lists[m][i], "=") =>
                LET k == Split(env_lists[m][i], "=")[1]
                IN k \in DOMAIN env_dicts[m]
                   /\ env_dicts[m][k] = RemaindersOf(env_lists[m], k)

\* C8: a line without "=" adds no key and no value: the three mappings are
\* those of the same lines with that line removed.
C8_MalformedLineNoEffect ==
    pc = "resolve" =>
        env_dicts = [m \in Methods |->
            ConsolidateLines(EmptyDict,
                SelectSeq(env_lists[m], LAMBDA line : Contains(line, "=")))]

\* C9 as stated: when the rule query fails, the environment is the one at
\* entry to execute.
C9_NoMutationBeforeFetch == raised = "Fault" => environ = environ0

\* C9 as amended: when the rule query fails, the environment differs from
\* the one at entry only in variables named PIPE_..., the upper-cased names
\* of the pipe_ templates; no other variable is added, removed or changed,
\* and nothing of the apply phase has run.
C9_OnlyTemplateVarsBeforeFetch ==
    raised = "Fault" =>
        /\ pc = "aborted"
        /\ DOMAIN environ0 \subseteq DOMAIN environ
        /\ \A k \in DOMAIN environ :
              \/ k \in DOMAIN environ0 /\ environ[k] = environ0[k]
              \/ Len(k) >= 1 /\ k[1] = "PIPE_"
        /\ log = <<>>
        /\ SgtkEnvVars \notin DOMAIN environ

C9_Witness ==
    /\ raised = "Fault"
    /\ <<"PIPE_", "ROOT">> \in DOMAIN environ
    /\ environ # environ0

CanonOrder(S) == CHOOSE o \in Orders(S) : TRUE

\* C10: the final environment does not depend on the order in which the
\* keys of the replace, prepend and append mappings are iterated: it is the
\* one a fixed order of each mapping's keys gives.
C10_OrderIndependent ==
    pc = "done" =>
        \E torder \in Orders(PipeTemplates(templates)) :
        \E korder \in Orders(EnvKeys(env_dicts)) :
            environ =
                AddPathKeys(
                    AddPathKeys(
                        ReplaceKeys(
                            RecordKeys(SetTemplates(environ0, torder, templates), korder),
                            CanonOrder(DOMAIN env_dicts.replace), env_dicts.replace),
                        CanonOrder(DOMAIN env_dicts.prepend), env_dicts.prepend, TRUE),
                    CanonOrder(DOMAIN env_dicts.append), env_dicts.append, FALSE)

====
